---- MODULE Spec2Model ----
(***************************************************************************)
(* b.NanoAmP: the pipeline controller (controller.py) and the model data    *)
(* (model.py).  Three specifications share this module:                     *)
(*   Spec       execute_pipeline: the log setup, _setup_pipeline,           *)
(*              _fastq_folder_iter and the folder/step loop;                *)
(*   SpecSetup  _setup_pipeline for every combination of the GUI values;    *)
(*   SpecConda  get_conda_setup: the resolution of tools over environments. *)
(* Python strings are TLA+ strings; split, startswith, Path.suffixes and    *)
(* version.parse are computed character by character.                       *)
(***************************************************************************)
EXTENDS Integers, Sequences, FiniteSets, TLC

VARIABLES
    \* get_conda_setup
    conda_in,       \* the environments conda knows: a list of
                    \* [name, pref, active, list_rc, pkgs]
    conda_info,     \* proc of `conda info --envs`: [returncode, stdout]
    conda_envs,     \* the list _get_conda_envs() returned
    conda_i,        \* position of the loop over _get_conda_envs()
    conda_pc,       \* "call" | "loop" | "done" | "raised"
    prefs,          \* dict pkg_name -> (pref, ver)
    envs            \* dict env_name -> list of pkg_name

condaVars == <<conda_in, conda_info, conda_envs, conda_i, conda_pc, prefs, envs>>

VARIABLES
    \* execute_pipeline
    dpg,            \* the values of the GUI items, dpg.get_value(item)
    fs,             \* the directory dpg's "bcfolder" names, with its entries
    pc,             \* "preflight" | "setup" | "iter" | "run" | "done" |
                    \* "returned" (preflight failed) | "raised"
    pipe_active_ind,\* show flag of the item "pipe_active_ind"
    steps,          \* the list _setup_pipeline returned
    listing,        \* _fastq_folder_iter: what dir.iterdir() listed when
                    \* the generator was first advanced
    gen_i,          \* _fastq_folder_iter: next position in the listing
    yielded,        \* the folders _fastq_folder_iter has yielded so far
    folder,         \* the loop variable of line 27
    step_i,         \* position of the loop of line 29 in steps
    runs            \* the step.run(folder) invocations made, in order

pipeVars == <<dpg, fs, pc, pipe_active_ind, steps, listing, gen_i, yielded,
              folder, step_i, runs>>

vars == <<condaVars, pipeVars>>

(***************************************************************************)
(* Bounds of the model.                                                     *)
(***************************************************************************)
MaxEnvs == 3
MaxEntries == 2

(***************************************************************************)
(* Python string helpers.                                                   *)
(***************************************************************************)
\* str.startswith
StartsWith(s, p) == Len(s) >= Len(p) /\ SubSeq(s, 1, Len(p)) = p

\* position of the first occurrence of the one-character sep in s at or
\* after position i, Len(s) + 1 if there is none
RECURSIVE FindSep(_, _, _)
FindSep(s, sep, i) ==
    IF i > Len(s) THEN Len(s) + 1
    ELSE IF SubSeq(s, i, i) = sep THEN i
    ELSE FindSep(s, sep, i + 1)

\* str.split(sep) for a one-character separator
RECURSIVE Split(_, _)
Split(s, sep) ==
    LET j == FindSep(s, sep, 1)
    IN  IF j > Len(s) THEN <<s>>
        ELSE <<SubSeq(s, 1, j - 1)>> \o Split(SubSeq(s, j + 1, Len(s)), sep)

(***************************************************************************)
(* packaging.version.parse on release versions N(.N)* and the ordering of   *)
(* the parsed versions.                                                     *)
(***************************************************************************)
DigitValue(c) ==
    CASE c = "0" -> 0 [] c = "1" -> 1 [] c = "2" -> 2 [] c = "3" -> 3
      [] c = "4" -> 4 [] c = "5" -> 5 [] c = "6" -> 6 [] c = "7" -> 7
      [] c = "8" -> 8 [] c = "9" -> 9

\* int(s) of a string of decimal digits
RECURSIVE ToInt(_)
ToInt(s) ==
    IF Len(s) = 0 THEN 0
    ELSE 10 * ToInt(SubSeq(s, 1, Len(s) - 1)) + DigitValue(SubSeq(s, Len(s), Len(s)))

\* the release tuple without its trailing zeros (Version._key)
RECURSIVE StripTrailingZeros(_)
StripTrailingZeros(t) ==
    IF Len(t) > 0 /\ t[Len(t)] = 0
    THEN StripTrailingZeros(SubSeq(t, 1, Len(t) - 1))
    ELSE t

version_parse(v) ==
    LET parts == Split(v, ".")
    IN  StripTrailingZeros([i \in 1..Len(parts) |-> ToInt(parts[i])])

\* Python's ordering of tuples of integers: a > b
RECURSIVE TupleGreater(_, _)
TupleGreater(a, b) ==
    IF Len(a) = 0 THEN FALSE
    ELSE IF Len(b) = 0 THEN TRUE
    ELSE IF a[1] # b[1] THEN a[1] > b[1]
    ELSE TupleGreater(Tail(a), Tail(b))

\* version.parse(a) > version.parse(b)
VersionGreater(a, b) == TupleGreater(version_parse(a), version_parse(b))

(***************************************************************************)
(* model.py                                                                 *)
(***************************************************************************)
BINARIES ==
    {"duplex-tools", "filtlong", "flye", "raven-assembler", "miniasm",
     "minipolish", "minimap2", "racon", "medaka"}

(***************************************************************************)
(* pathlib on the modelled directory.  A directory is a record              *)
(* [name, is_dir, entries]; entries lists what iterdir() returns, in its    *)
(* order, each again a record of that shape (entries empty for a file).     *)
(***************************************************************************)
\* PurePath.name of a path string
PathName(path) == LET parts == Split(path, "/") IN parts[Len(parts)]

\* position of the last "." of name, 0 if there is none (str.rfind + 1)
RECURSIVE RFindDot(_, _)
RFindDot(name, i) ==
    IF i = 0 THEN 0
    ELSE IF SubSeq(name, i, i) = "." THEN i
    ELSE RFindDot(name, i - 1)

\* PurePath.stem: the name without its last suffix
Stem(name) ==
    LET i == RFindDot(name, Len(name))
    IN  IF 1 < i /\ i < Len(name) THEN SubSeq(name, 1, i - 1) ELSE name

\* str.lstrip(".")
RECURSIVE LStripDots(_)
LStripDots(name) ==
    IF Len(name) > 0 /\ SubSeq(name, 1, 1) = "."
    THEN LStripDots(SubSeq(name, 2, Len(name)))
    ELSE name

\* PurePath.suffixes, as a set: "reads.fastq.gz" has ".fastq" and ".gz"
Suffixes(name) ==
    IF Len(name) > 0 /\ SubSeq(name, Len(name), Len(name)) = "." THEN {}
    ELSE LET parts == Split(LStripDots(name), ".")
         IN  {"." \o parts[k] : k \in 2..Len(parts)}

\* the directory or file a path names: dir itself or one of its entries
Node(path) ==
    IF path = dpg.bcfolder THEN fs
    ELSE LET k == CHOOSE k \in 1..Len(fs.entries) :
                      path = dpg.bcfolder \o "/" \o fs.entries[k].name
         IN  fs.entries[k]

\* dir.iterdir() of the root: the paths of its entries.  iterdir lists the
\* directory (os.listdir) when it is first advanced and yields from that list.
IterDir(dir) == [k \in 1..Len(fs.entries) |-> dir \o "/" \o fs.entries[k].name]

File(name) == [name |-> name, is_dir |-> FALSE, entries |-> <<>>]
Dir(name, entries) == [name |-> name, is_dir |-> TRUE, entries |-> entries]

\* whether node has an entry of that name
HasEntry(node, name) == \E k \in 1..Len(node.entries) : node.entries[k].name = name

\* node with those of the entries new it has no entry named like
AddEntries(node, new) ==
    [node EXCEPT !.entries =
        node.entries \o SelectSeq(new, LAMBDA e : ~ HasEntry(node, e.name))]

\* the root with the entries new created in the directory path names
WriteUnder(path, new) ==
    IF path = dpg.bcfolder THEN AddEntries(fs, new)
    ELSE LET k == CHOOSE k \in 1..Len(fs.entries) :
                      path = dpg.bcfolder \o "/" \o fs.entries[k].name
         IN  [fs EXCEPT !.entries[k] = AddEntries(fs.entries[k], new)]

(***************************************************************************)
(* controller.py: folder selection.                                         *)
(***************************************************************************)
\* _has_fastq(folder): some entry is a file with ".fastq" among its suffixes
_has_fastq(path) ==
    \E k \in 1..Len(Node(path).entries) :
        LET entry == Node(path).entries[k]
        IN  ~ entry.is_dir /\ ".fastq" \in Suffixes(entry.name)

\* _use_folder testing folder.stem == "original" in line 78
_use_folder_exactOriginal(path) ==
    IF ~ Node(path).is_dir \/ ~ _has_fastq(path) THEN FALSE
    ELSE IF \/ Stem(PathName(path)) = "original"
            \/ StartsWith(Stem(PathName(path)), "assemblies")
         THEN FALSE
    ELSE IF dpg.skip_unclassified
         THEN ~ StartsWith(Stem(PathName(path)), "unclassified")
    ELSE TRUE

\* _use_folder(folder)
_use_folder(path) ==
    IF ~ Node(path).is_dir \/ ~ _has_fastq(path) THEN FALSE
    ELSE IF \/ StartsWith(Stem(PathName(path)), "original")
            \/ StartsWith(Stem(PathName(path)), "assemblies")
         THEN FALSE
    ELSE IF dpg.skip_unclassified
         THEN ~ StartsWith(Stem(PathName(path)), "unclassified")
    ELSE TRUE

\* the list dir.iterdir() yields from: taken when the generator is first
\* advanced (gen_i = 1), kept from then on
Listing(dir) == IF gen_i = 1 THEN IterDir(dir) ELSE listing

\* _fastq_folder_iter, lines 170-172: the position of the next entry of
\* dir.iterdir() at or after i that the generator yields, 0 if none is left
RECURSIVE NextChild(_, _)
NextChild(dir, i) ==
    IF i > Len(Listing(dir)) THEN 0
    ELSE IF _use_folder(Listing(dir)[i]) THEN i
    ELSE NextChild(dir, i + 1)

\* the root tested like its entries, by _use_folder
YieldsRoot_useFolder(dir) == _use_folder(dir)

\* _fastq_folder_iter, lines 173-174: whether dir itself is yielded
YieldsRoot(dir) == _has_fastq(dir)

(***************************************************************************)
(* controller.py: _setup_pipeline.  A step is the record of its class and   *)
(* of the arguments it was constructed with.                                *)
(***************************************************************************)
get_assemblers == <<"Flye", "Raven", "Miniasm">>

DuplexStep(threads) == [kind |-> "DuplexStep", threads |-> threads]
FilterStep(min_len, bases) == [kind |-> "FilterStep", min_len |-> min_len, bases |-> bases]
CleanDuplexStep == [kind |-> "CleanDuplexStep"]
AssemblyStep(threads, assembler) ==
    [kind |-> "AssemblyStep", threads |-> threads, assembler |-> assembler]
RaconPolishingStep(threads) == [kind |-> "RaconPolishingStep", threads |-> threads]
MedakaPolishingStep(threads, assembler, medaka_mod, is_racon) ==
    [kind |-> "MedakaPolishingStep", threads |-> threads, assembler |-> assembler,
     model |-> medaka_mod, is_racon |-> is_racon]
CleanAssemblyStep(assembler, is_racon) ==
    [kind |-> "CleanAssemblyStep", assembler |-> assembler, is_racon |-> is_racon]
CleanFilterStep == [kind |-> "CleanFilterStep"]
FinalCleanStep == [kind |-> "FinalCleanStep"]

\* lines 195-198
FirstSteps(d) ==
    <<DuplexStep(d.threads),
      FilterStep(d.filtlong_minlen, d.genome_size * 1000000 * d.coverage)>>
    \o (IF ~ d.keep_intermediate THEN <<CleanDuplexStep>> ELSE <<>>)

\* lines 202-211 with the polishing steps exchanged
AssemblerSteps_medakaFirst(d, assembler) ==
    <<AssemblyStep(d.threads, assembler)>>
    \o <<MedakaPolishingStep(d.threads, assembler, d.medaka_manumodel, ~ d.racon_skip)>>
    \o (IF assembler = "Flye" /\ ~ d.racon_skip
        THEN <<RaconPolishingStep(d.threads)>> ELSE <<>>)
    \o (IF ~ d.keep_intermediate
        THEN <<CleanAssemblyStep(assembler, ~ d.racon_skip)>> ELSE <<>>)

\* lines 202-211 without the test assembler == "Flye" of line 204
AssemblerSteps_raconForAll(d, assembler) ==
    <<AssemblyStep(d.threads, assembler)>>
    \o (IF ~ d.racon_skip
        THEN <<RaconPolishingStep(d.threads)>> ELSE <<>>)
    \o <<MedakaPolishingStep(d.threads, assembler, d.medaka_manumodel, ~ d.racon_skip)>>
    \o (IF ~ d.keep_intermediate
        THEN <<CleanAssemblyStep(assembler, ~ d.racon_skip)>> ELSE <<>>)

\* lines 202-211: the steps of one selected assembler
AssemblerSteps(d, assembler) ==
    <<AssemblyStep(d.threads, assembler)>>
    \o (IF assembler = "Flye" /\ ~ d.racon_skip
        THEN <<RaconPolishingStep(d.threads)>> ELSE <<>>)
    \o <<MedakaPolishingStep(d.threads, assembler, d.medaka_manumodel, ~ d.racon_skip)>>
    \o (IF ~ d.keep_intermediate
        THEN <<CleanAssemblyStep(assembler, ~ d.racon_skip)>> ELSE <<>>)

\* lines 212-214 under the test "if asms" as well
LastSteps_onlyWithAssemblers(d) ==
    IF ~ d.keep_intermediate /\ \E k \in 1..3 : d["use_" \o get_assemblers[k]]
    THEN <<CleanFilterStep, FinalCleanStep>> ELSE <<>>

\* lines 212-214
LastSteps(d) ==
    IF ~ d.keep_intermediate THEN <<CleanFilterStep, FinalCleanStep>> ELSE <<>>

\* lines 200-201: the loop over model.get_assemblers() from position k on
RECURSIVE AssemblerLoop(_, _)
AssemblerLoop(d, k) ==
    IF k > Len(get_assemblers) THEN <<>>
    ELSE (IF d["use_" \o get_assemblers[k]]
          THEN AssemblerSteps(d, get_assemblers[k]) ELSE <<>>)
         \o AssemblerLoop(d, k + 1)

\* _setup_pipeline(): the list of steps for the GUI values d
_setup_pipeline(d) == FirstSteps(d) \o AssemblerLoop(d, 1) \o LastSteps(d)

(***************************************************************************)
(* The inputs of execute_pipeline: the GUI values and the directory.        *)
(***************************************************************************)
RootNames == {"run1", "original_backup", "unclassified"}

\* what the root may contain
EntryPool ==
    { Dir("barcode01", <<File("reads.fastq.gz")>>),
      Dir("log", <<File("notes.txt"), Dir("old.fastq", <<>>)>>),
      File("log"),
      Dir("original_backup", <<File("reads.fastq")>>),
      Dir("unclassified", <<File("reads.fastq")>>),
      Dir("assemblies.v1", <<File("reads.fastq")>>),
      File("reads.fastq") }

\* the root directories: up to MaxEntries entries with different names, in
\* any scan order; or a path that is no directory
Roots ==
    { Dir(n, e) : n \in RootNames,
                  e \in UNION { { s \in [1..m -> EntryPool] :
                                    \A i, j \in 1..m : s[i].name = s[j].name => i = j }
                                : m \in 0..MaxEntries } }
    \cup { [name |-> "missing", is_dir |-> FALSE, entries |-> <<>>] }

GuiValues ==
    { [bcfolder |-> "/data/" \o root.name,
       threads |-> t, genome_size |-> 5, coverage |-> 100,
       filtlong_minlen |-> 1000, medaka_manumodel |-> "r941_min_sup_g507",
       keep_intermediate |-> k, racon_skip |-> r, skip_unclassified |-> u,
       use_Flye |-> f, use_Raven |-> v, use_Miniasm |-> m]
      : root \in Roots, t \in {4, 8}, k \in BOOLEAN, r \in BOOLEAN,
        u \in BOOLEAN, f \in BOOLEAN, v \in BOOLEAN, m \in BOOLEAN }

\* the GUI values execute_pipeline is run with: the directory, whether
\* intermediate files are kept, whether unclassified folders are skipped
\* and two of the assemblers vary
PipeGuiValues ==
    { d \in GuiValues : d.threads = 8 /\ ~ d.racon_skip /\ ~ d.use_Raven }

StartPipe ==
    /\ pc = "preflight"
    /\ pipe_active_ind = FALSE
    /\ steps = <<>>
    /\ listing = <<>>
    /\ gen_i = 1
    /\ yielded = <<>>
    /\ folder = ""
    /\ step_i = 1
    /\ runs = <<>>

\* execute_pipeline is not running
IdlePipe ==
    /\ fs = [name |-> "missing", is_dir |-> FALSE, entries |-> <<>>]
    /\ dpg = CHOOSE d \in GuiValues :
                 /\ d.bcfolder = "/data/missing" /\ d.threads = 8
                 /\ d.keep_intermediate /\ d.racon_skip /\ d.skip_unclassified
                 /\ d.use_Flye /\ d.use_Raven /\ d.use_Miniasm
    /\ StartPipe

dir == dpg.bcfolder

\* lines 20-22 and _preflight_check: the folder does not exist
PreflightFails ==
    /\ pc = "preflight"
    /\ ~ Node(dir).is_dir
    /\ pc' = "returned"
    /\ UNCHANGED <<dpg, fs, pipe_active_ind, steps, listing, gen_i, yielded,
                   folder, step_i, runs>>
    /\ UNCHANGED condaVars

\* s with e put in at position p
InsertAt(s, p, e) == SubSeq(s, 1, p - 1) \o <<e>> \o SubSeq(s, p, Len(s))

\* _setup_logging(dir), lines 48-60: the roots it may leave.  Without a
\* directory dir/log, os.mkdir makes one, which a later scan of dir lists
\* at a position the file system chooses; FileHandler opens
\* dir/log/Pipeline.log for appending, making the file if there is none.
SetupLoggingRoots ==
    IF HasEntry(fs, "log")
    THEN {WriteUnder(dir \o "/log", <<File("Pipeline.log")>>)}
    ELSE {[fs EXCEPT !.entries =
               InsertAt(fs.entries, p, Dir("log", <<File("Pipeline.log")>>))]
          : p \in 1..(Len(fs.entries) + 1)}

\* lines 20-25: the preflight check passes, the log is set up and the
\* activity indicator is shown
PreflightPasses ==
    /\ pc = "preflight"
    /\ Node(dir).is_dir
    /\ ~ (HasEntry(fs, "log") /\ ~ Node(dir \o "/log").is_dir)
    /\ fs' \in SetupLoggingRoots
    /\ pipe_active_ind' = TRUE
    /\ pc' = "setup"
    /\ UNCHANGED <<dpg, steps, listing, gen_i, yielded, folder, step_i, runs>>
    /\ UNCHANGED condaVars

\* lines 20-23: dir/log exists and is no directory, os.mkdir in line 49
\* raises FileExistsError
SetupLoggingRaises ==
    /\ pc = "preflight"
    /\ Node(dir).is_dir
    /\ HasEntry(fs, "log") /\ ~ Node(dir \o "/log").is_dir
    /\ pc' = "raised"
    /\ UNCHANGED <<dpg, fs, pipe_active_ind, steps, listing, gen_i, yielded,
                   folder, step_i, runs>>
    /\ UNCHANGED condaVars

\* line 26
SetupPipeline ==
    /\ pc = "setup"
    /\ steps' = _setup_pipeline(dpg)
    /\ pc' = "iter"
    /\ UNCHANGED <<dpg, fs, pipe_active_ind, listing, gen_i, yielded, folder,
                   step_i, runs>>
    /\ UNCHANGED condaVars

\* line 27: the generator yields the next entry of dir it uses
NextFolderChild ==
    /\ pc = "iter"
    /\ NextChild(dir, gen_i) # 0
    /\ listing' = Listing(dir)
    /\ folder' = Listing(dir)[NextChild(dir, gen_i)]
    /\ gen_i' = NextChild(dir, gen_i) + 1
    /\ yielded' = Append(yielded, folder')
    /\ step_i' = 1
    /\ pc' = "run"
    /\ UNCHANGED <<dpg, fs, pipe_active_ind, steps, runs>>
    /\ UNCHANGED condaVars

\* line 27: no entry is left and the generator yields dir itself
NextFolderRoot ==
    /\ pc = "iter"
    /\ NextChild(dir, gen_i) = 0
    /\ gen_i <= Len(Listing(dir)) + 1
    /\ YieldsRoot(dir)
    /\ listing' = Listing(dir)
    /\ folder' = dir
    /\ gen_i' = Len(Listing(dir)) + 2
    /\ yielded' = Append(yielded, folder')
    /\ step_i' = 1
    /\ pc' = "run"
    /\ UNCHANGED <<dpg, fs, pipe_active_ind, steps, runs>>
    /\ UNCHANGED condaVars

\* lines 27 and 31: the generator is exhausted
LoopEnds ==
    /\ pc = "iter"
    /\ NextChild(dir, gen_i) = 0
    /\ ~ (gen_i <= Len(Listing(dir)) + 1 /\ YieldsRoot(dir))
    /\ listing' = Listing(dir)
    /\ gen_i' = Len(Listing(dir)) + 2
    /\ pipe_active_ind' = FALSE
    /\ pc' = "done"
    /\ UNCHANGED <<dpg, fs, steps, yielded, folder, step_i, runs>>
    /\ UNCHANGED condaVars

\* the record of one invocation step.run(folder)
Invocation(raised) == [step |-> steps[step_i], folder |-> folder, raised |-> raised]

\* What step.run(path) leaves in the directory.  The step classes are not
\* in src; test_PipelineSteps.py (lines 63-69) names what DuplexStep leaves
\* in the folder it ran on: the directory <stem>_split and the file
\* <stem>.fastq.gz.  Nothing in src names a file another step leaves.
Leaves(step, path) ==
    IF step.kind = "DuplexStep"
    THEN <<Dir(Stem(PathName(path)) \o "_split", <<>>),
           File(Stem(PathName(path)) \o ".fastq.gz")>>
    ELSE <<>>

\* lines 29-30: step.run(folder) returns
StepReturns ==
    /\ pc = "run"
    /\ step_i <= Len(steps)
    /\ runs' = Append(runs, Invocation(FALSE))
    /\ fs' = WriteUnder(folder, Leaves(steps[step_i], folder))
    /\ step_i' = step_i + 1
    /\ pc' = IF step_i' > Len(steps) THEN "iter" ELSE "run"
    /\ UNCHANGED <<dpg, pipe_active_ind, steps, listing, gen_i, yielded, folder>>
    /\ UNCHANGED condaVars

\* a step.run(folder) whose exception is swallowed: the loop goes on
StepRaises_swallowed ==
    /\ pc = "run"
    /\ step_i <= Len(steps)
    /\ runs' = Append(runs, Invocation(TRUE))
    /\ step_i' = step_i + 1
    /\ pc' = IF step_i' > Len(steps) THEN "iter" ELSE "run"
    /\ UNCHANGED <<dpg, fs, pipe_active_ind, steps, listing, gen_i, yielded,
                   folder>>
    /\ UNCHANGED condaVars

\* lines 29-30: step.run(folder) raises; nothing in execute_pipeline
\* catches the exception, and nothing reads the directory afterwards
StepRaises ==
    /\ pc = "run"
    /\ step_i <= Len(steps)
    /\ runs' = Append(runs, Invocation(TRUE))
    /\ pc' = "raised"
    /\ UNCHANGED <<dpg, fs, pipe_active_ind, steps, listing, gen_i, yielded,
                   folder, step_i>>
    /\ UNCHANGED condaVars

(***************************************************************************)
(* controller.py: the conda setup.                                          *)
(***************************************************************************)
\* The environments conda knows: names, the prefix of each, whether it is
\* the active one, the exit status of `conda list -n name` and the
\* (name, version) pairs that command lists.
EnvNames == {"", "base", "tools", "nanoamp_assmb"}

PrefOf(name) ==
    IF name = "" THEN "/data/scratch/env"
    ELSE IF name = "base" THEN "/opt/conda"
    ELSE "/opt/conda/envs/" \o name

PkgLists ==
    { << <<"python", "3.9.7">> >>,
      << <<"python", "3.9.7">>, <<"medaka", "1.9.0">> >>,
      << <<"medaka", "1.10.0">>, <<"flye", "2.9">> >>,
      << <<"medaka", "1.10">> >> }

EnvRecords ==
    { [name |-> n, pref |-> PrefOf(n), active |-> a, list_rc |-> 0, pkgs |-> l] :
          n \in EnvNames, a \in BOOLEAN, l \in PkgLists }
    \cup
    { [name |-> n, pref |-> PrefOf(n), active |-> a, list_rc |-> 1, pkgs |-> <<>>] :
          n \in EnvNames, a \in BOOLEAN }

\* lists of at most MaxEnvs environments with pairwise different names, at
\* most one of them active
CondaInputs ==
    UNION { { s \in [1..n -> EnvRecords] :
                \A i, j \in 1..n :
                    /\ s[i].name = s[j].name => i = j
                    /\ (s[i].active /\ s[j].active) => i = j }
            : n \in 0..MaxEnvs }

\* one line of `conda info --envs`: the name, "*" for the active
\* environment, the prefix (the columns are padded with blanks)
InfoLine(e) ==
    e.name \o "  " \o (IF e.active THEN "*" ELSE " ") \o "  " \o e.pref

\* The lines conda prints before the environments.  The format belongs to
\* the conda installed: the two lines that the slice [2:-1] of line 334
\* drops, or the five lines of conda 26.3.2 (an empty one first, a legend
\* of the markers last), of which the slice drops only the first two.
InfoHeaders ==
    { <<"# conda environments:", "#">>,
      <<"", "# conda environments:", "#", "# * -> active", "# + -> frozen">> }

\* proc.stdout.decode().splitlines() of a successful `conda info --envs`:
\* the header lines, one line per environment, an empty last line
InfoStdout(in, header) ==
    header \o [i \in 1..Len(in) |-> InfoLine(in[i])] \o <<"">>

\* the procs `conda info --envs` may give for the environments in
CondaInfos(in) ==
    {[returncode |-> 0, stdout |-> InfoStdout(in, h)] : h \in InfoHeaders}
        \cup (IF in = <<>> THEN {[returncode |-> 1, stdout |-> <<>>]} ELSE {})

\* str.split(): the words of s between runs of blanks
RECURSIVE WSplitFrom(_, _, _, _)
WSplitFrom(s, i, word, acc) ==
    IF i > Len(s)
    THEN IF word = "" THEN acc ELSE Append(acc, word)
    ELSE IF SubSeq(s, i, i) = " "
         THEN WSplitFrom(s, i + 1, "", IF word = "" THEN acc ELSE Append(acc, word))
         ELSE WSplitFrom(s, i + 1, word \o SubSeq(s, i, i), acc)

WSplit(s) == WSplitFrom(s, 1, "", <<>>)

\* _get_conda_envs() past the check of the exit status (lines 329-335): the
\* (env_name, pref) pairs of the lines [2:-1] of `conda info --envs`
_get_conda_envs ==
    LET lines == SubSeq(conda_info.stdout, 3, Len(conda_info.stdout) - 1)
    IN  [k \in 1..Len(lines) |->
            LET env == WSplit(lines[k])
            IN  <<IF Len(env) > 1 THEN env[1] ELSE "", env[Len(env)]>>]

\* proc.stdout.decode().splitlines() of a successful `conda list -n env`:
\* three header lines, then name, version, build and channel of each package
ListStdout(pkgs) ==
    <<"# packages in environment:", "#", "# Name  Version  Build  Channel">>
        \o [k \in 1..Len(pkgs) |->
               pkgs[k][1] \o "  " \o pkgs[k][2] \o "  0  bioconda"]

\* proc.returncode of `conda list -n env` (lines 342-346): conda exits with
\* 1 when it knows no environment of that name
ListStatus(env) ==
    IF \E i \in 1..Len(conda_in) : conda_in[i].name = env /\ env # ""
    THEN LET i == CHOOSE i \in 1..Len(conda_in) : conda_in[i].name = env
         IN  conda_in[i].list_rc
    ELSE 1

\* _get_conda_packages(env) past the check of the exit status (lines
\* 348-351): the (pkg_name, ver) pairs of the lines [3:] of `conda list`
_get_conda_packages(env) ==
    LET i     == CHOOSE i \in 1..Len(conda_in) : conda_in[i].name = env
        out   == ListStdout(conda_in[i].pkgs)
        lines == SubSeq(out, 4, Len(out))
    IN  [k \in 1..Len(lines) |->
            LET w == WSplit(lines[k]) IN <<w[1], w[2]>>]

EmptyDict == [k \in {} |-> <<>>]

\* d[k] = v on a dict
DictSet(d, k, v) == [q \in DOMAIN d \cup {k} |-> IF q = k THEN v ELSE d[q]]

\* Python's ordering of the version strings themselves (code points of
\* '.' and the digits): a > b
CharRank(c) == IF c = "." THEN 46 ELSE 48 + DigitValue(c)

RECURSIVE StringGreater(_, _)
StringGreater(a, b) ==
    IF Len(a) = 0 THEN FALSE
    ELSE IF Len(b) = 0 THEN TRUE
    ELSE IF SubSeq(a, 1, 1) # SubSeq(b, 1, 1)
         THEN CharRank(SubSeq(a, 1, 1)) > CharRank(SubSeq(b, 1, 1))
    ELSE StringGreater(SubSeq(a, 2, Len(a)), SubSeq(b, 2, Len(b)))

\* ShouldOverwrite comparing the version strings, not the parsed versions
ShouldOverwrite_lexical(p, pkg_name, ver, env_name) ==
    \/ ~ ( /\ pkg_name \in DOMAIN p
           /\ StringGreater(p[pkg_name][2], ver) )
    \/ StartsWith(env_name, "nanoamp_")

\* ShouldOverwrite with >= for >: an equal version keeps the earlier pick
ShouldOverwrite_keepFirst(p, pkg_name, ver, env_name) ==
    \/ ~ ( /\ pkg_name \in DOMAIN p
           /\ ~ VersionGreater(ver, p[pkg_name][2]) )
    \/ StartsWith(env_name, "nanoamp_")

\* The condition of lines 306-312 under which prefs[pkg_name] is assigned.
ShouldOverwrite(p, pkg_name, ver, env_name) ==
    \/ ~ ( /\ pkg_name \in DOMAIN p
           /\ VersionGreater(p[pkg_name][2], ver) )
    \/ StartsWith(env_name, "nanoamp_")

\* The loop over the packages of one environment (lines 303-313): the
\* prefs and pkgs_in_env it leaves.
RECURSIVE PackageLoop(_, _, _, _, _)
PackageLoop(pkgs, p, pkgs_in_env, env_name, pref) ==
    IF Len(pkgs) = 0 THEN [prefs |-> p, pkgs_in_env |-> pkgs_in_env]
    ELSE
        LET pkg_name == pkgs[1][1]
            ver      == pkgs[1][2]
        IN  IF pkg_name \in BINARIES
            THEN PackageLoop(
                    Tail(pkgs),
                    IF ShouldOverwrite(p, pkg_name, ver, env_name)
                    THEN DictSet(p, pkg_name, <<pref, ver>>)
                    ELSE p,
                    Append(pkgs_in_env, pkg_name), env_name, pref)
            ELSE PackageLoop(Tail(pkgs), p, pkgs_in_env, env_name, pref)

StartConda ==
    /\ conda_envs = <<>>
    /\ conda_i = 1
    /\ conda_pc = "call"
    /\ prefs = EmptyDict
    /\ envs = EmptyDict

\* get_conda_setup is not running
IdleConda ==
    /\ conda_in = <<>>
    /\ conda_info = [returncode |-> 0, stdout |-> <<>>]
    /\ StartConda

InitConda ==
    /\ conda_in \in CondaInputs
    /\ conda_info \in CondaInfos(conda_in)
    /\ StartConda
    /\ IdlePipe

\* line 299, _get_conda_envs() returns its list (lines 320-335)
EnvsCallReturns ==
    /\ conda_pc = "call"
    /\ conda_info.returncode = 0
    /\ conda_envs' = _get_conda_envs
    /\ conda_pc' = "loop"
    /\ UNCHANGED <<conda_in, conda_info, conda_i, prefs, envs>>
    /\ UNCHANGED pipeVars

\* line 299, _get_conda_envs() raises OSError (lines 327-328)
EnvsCallRaises ==
    /\ conda_pc = "call"
    /\ conda_info.returncode # 0
    /\ conda_pc' = "raised"
    /\ UNCHANGED <<conda_in, conda_info, conda_envs, conda_i, prefs, envs>>
    /\ UNCHANGED pipeVars

\* lines 300-301 without the continue: the environment without a name is
\* processed like a named one, with the packages found under its prefix
SkipAnonymous_processed ==
    /\ conda_pc = "loop"
    /\ conda_i <= Len(conda_envs)
    /\ conda_envs[conda_i][1] = ""
    /\ LET pref == conda_envs[conda_i][2]
           pkgs == IF \E i \in 1..Len(conda_in) : conda_in[i].pref = pref
                   THEN conda_in[CHOOSE i \in 1..Len(conda_in) :
                                     conda_in[i].pref = pref].pkgs
                   ELSE <<>>
           r    == PackageLoop(pkgs, prefs, <<>>, "", pref)
       IN  /\ prefs' = r.prefs
           /\ envs' = IF Len(r.pkgs_in_env) > 0
                      THEN DictSet(envs, "", r.pkgs_in_env)
                      ELSE envs
    /\ conda_i' = conda_i + 1
    /\ UNCHANGED <<conda_in, conda_info, conda_envs, conda_pc>>
    /\ UNCHANGED pipeVars

\* lines 300-301: the environment without a name is skipped
SkipAnonymous ==
    /\ conda_pc = "loop"
    /\ conda_i <= Len(conda_envs)
    /\ conda_envs[conda_i][1] = ""
    /\ conda_i' = conda_i + 1
    /\ UNCHANGED <<conda_in, conda_info, conda_envs, conda_pc, prefs, envs>>
    /\ UNCHANGED pipeVars

\* lines 302-315: one named environment whose packages conda lists
ProcessEnv ==
    /\ conda_pc = "loop"
    /\ conda_i <= Len(conda_envs)
    /\ LET env_name == conda_envs[conda_i][1]
           pref     == conda_envs[conda_i][2]
       IN  /\ env_name # ""
           /\ ListStatus(env_name) = 0
           /\ LET r == PackageLoop(_get_conda_packages(env_name), prefs, <<>>,
                                   env_name, pref)
              IN  /\ prefs' = r.prefs
                  /\ envs' = IF Len(r.pkgs_in_env) > 0
                             THEN DictSet(envs, env_name, r.pkgs_in_env)
                             ELSE envs
    /\ conda_i' = conda_i + 1
    /\ UNCHANGED <<conda_in, conda_info, conda_envs, conda_pc>>
    /\ UNCHANGED pipeVars

\* line 303, _get_conda_packages(env_name) raises OSError (lines 346-347)
PackagesCallRaises ==
    /\ conda_pc = "loop"
    /\ conda_i <= Len(conda_envs)
    /\ conda_envs[conda_i][1] # ""
    /\ ListStatus(conda_envs[conda_i][1]) # 0
    /\ conda_pc' = "raised"
    /\ UNCHANGED <<conda_in, conda_info, conda_envs, conda_i, prefs, envs>>
    /\ UNCHANGED pipeVars

\* line 316: return envs, prefs
ReturnSetup ==
    /\ conda_pc = "loop"
    /\ conda_i > Len(conda_envs)
    /\ conda_pc' = "done"
    /\ UNCHANGED <<conda_in, conda_info, conda_envs, conda_i, prefs, envs>>
    /\ UNCHANGED pipeVars

NextConda ==
    \/ EnvsCallReturns
    \/ EnvsCallRaises
    \/ SkipAnonymous
    \/ ProcessEnv
    \/ PackagesCallRaises
    \/ ReturnSetup

SpecConda == InitConda /\ [][NextConda]_vars

(***************************************************************************)
(* execute_pipeline: the specification.                                     *)
(***************************************************************************)
Init ==
    /\ fs \in Roots
    /\ dpg \in {d \in PipeGuiValues : d.bcfolder = "/data/" \o fs.name}
    /\ StartPipe
    /\ IdleConda

Next ==
    \/ PreflightFails
    \/ PreflightPasses
    \/ SetupLoggingRaises
    \/ SetupPipeline
    \/ NextFolderChild
    \/ NextFolderRoot
    \/ LoopEnds
    \/ StepReturns
    \/ StepRaises

Spec == Init /\ [][Next]_vars

(***************************************************************************)
(* _setup_pipeline on its own: line 26 for every combination of the GUI     *)
(* values it reads, in a directory whose log is set up.                     *)
(***************************************************************************)
InitSetup ==
    /\ fs = Dir("run1", <<Dir("log", <<File("Pipeline.log")>>)>>)
    /\ dpg \in {d \in GuiValues : d.bcfolder = "/data/run1"}
    /\ pc = "setup"
    /\ pipe_active_ind = TRUE
    /\ steps = <<>>
    /\ listing = <<>>
    /\ gen_i = 1
    /\ yielded = <<>>
    /\ folder = ""
    /\ step_i = 1
    /\ runs = <<>>
    /\ IdleConda

NextSetup == SetupPipeline

SpecSetup == InitSetup /\ [][NextSetup]_vars

(***************************************************************************)
(* Properties of get_conda_setup.                                           *)
(***************************************************************************)
NamedEnvs == {i \in 1..Len(conda_in) : conda_in[i].name # ""}

Privileged(i) == StartsWith(conda_in[i].name, "nanoamp_")

Offers(i, tool) == \E k \in 1..Len(conda_in[i].pkgs) : conda_in[i].pkgs[k][1] = tool

OfferedVersion(i, tool) ==
    LET k == CHOOSE k \in 1..Len(conda_in[i].pkgs) : conda_in[i].pkgs[k][1] = tool
    IN  conda_in[i].pkgs[k][2]

Offerers(tool) == {i \in NamedEnvs : Offers(i, tool)}

NoPrivileged == \A i \in 1..Len(conda_in) : ~ Privileged(i)

\* the named environments that offer tool at the highest version
MaxOfferers(tool) ==
    {i \in Offerers(tool) :
        \A j \in Offerers(tool) :
            ~ VersionGreater(OfferedVersion(j, tool), OfferedVersion(i, tool))}

\* C1: when get_conda_setup has returned, every required tool that some
\* privileged (nanoamp_) environment has installed is resolved to the
\* (prefix, version) of a privileged environment, whatever the order of the
\* environments.
C1_PrivilegedAlwaysWins ==
    conda_pc = "done" =>
        \A tool \in BINARIES :
            (\E i \in Offerers(tool) : Privileged(i)) =>
                /\ tool \in DOMAIN prefs
                /\ \E i \in Offerers(tool) :
                      /\ Privileged(i)
                      /\ prefs[tool] = <<conda_in[i].pref, OfferedVersion(i, tool)>>

\* C2: when no environment is privileged and get_conda_setup has returned,
\* the version resolved for every required tool that a named environment
\* offers is one of the offered versions and no offered version is greater
\* under the ordering of parsed versions.
C2_HighestVersion ==
    (conda_pc = "done" /\ NoPrivileged) =>
        \A tool \in BINARIES :
            Offerers(tool) # {} =>
                /\ tool \in DOMAIN prefs
                /\ \E i \in Offerers(tool) : prefs[tool][2] = OfferedVersion(i, tool)
                /\ \A j \in Offerers(tool) :
                      ~ VersionGreater(OfferedVersion(j, tool), prefs[tool][2])

\* C2 witness: an earlier environment offers medaka at a version greater
\* than a later one's (1.10.0 before 1.9.0) and the earlier version is the
\* one resolved.
C2_Witness ==
    /\ conda_pc = "done"
    /\ NoPrivileged
    /\ \E i, j \in Offerers("medaka") :
          /\ i < j
          /\ VersionGreater(OfferedVersion(i, "medaka"), OfferedVersion(j, "medaka"))
          /\ StringGreater(OfferedVersion(j, "medaka"), OfferedVersion(i, "medaka"))
          /\ "medaka" \in DOMAIN prefs
          /\ prefs["medaka"][2] = OfferedVersion(i, "medaka")

\* the least and the greatest element of a nonempty set of positions
MinOf(S) == CHOOSE i \in S : \A j \in S : i <= j
MaxOf(S) == CHOOSE i \in S : \A j \in S : j <= i

\* C3 as stated: with no privileged environment, a tool offered at the
\* same highest version by two or more environments is resolved to the
\* first of them in enumeration order.
C3_FirstOfEqualKept ==
    (conda_pc = "done" /\ NoPrivileged) =>
        \A tool \in BINARIES :
            Cardinality(MaxOfferers(tool)) >= 2 =>
                /\ tool \in DOMAIN prefs
                /\ prefs[tool][1] = conda_in[MinOf(MaxOfferers(tool))].pref

\* C3 amended: with no privileged environment, a tool offered at the same
\* highest version by two or more environments is resolved to the LAST of
\* them in enumeration order: a later candidate of equal version replaces
\* the current pick.
C3_LastOfEqualWins ==
    (conda_pc = "done" /\ NoPrivileged) =>
        \A tool \in BINARIES :
            Cardinality(MaxOfferers(tool)) >= 2 =>
                /\ tool \in DOMAIN prefs
                /\ prefs[tool] =
                      LET i == MaxOf(MaxOfferers(tool))
                      IN  <<conda_in[i].pref, OfferedVersion(i, tool)>>

\* C3 witness: two environments offer medaka at the same highest version
\* and the resolved prefix is the last's, not the first's.
C3_Witness ==
    /\ conda_pc = "done"
    /\ NoPrivileged
    /\ Cardinality(MaxOfferers("medaka")) >= 2
    /\ "medaka" \in DOMAIN prefs
    /\ prefs["medaka"][1] = conda_in[MaxOf(MaxOfferers("medaka"))].pref
    /\ prefs["medaka"][1] # conda_in[MinOf(MaxOfferers("medaka"))].pref

\* the required tools that environment i lists
RequiredListed(i) == {tool \in BINARIES : Offers(i, tool)}

\* C11: when get_conda_setup has returned, prefs has an entry for exactly
\* the required tools that some named environment lists, each entry a
\* (prefix, version) that one named environment offers for the tool; envs
\* has exactly the named environments that list a required tool, each with
\* the required tools it lists and nothing else; the environment without a
\* name is in neither, whether conda marks it active ("*") or not.
C11_TablesOfNamedEnvs ==
    conda_pc = "done" =>
        /\ DOMAIN prefs = {tool \in BINARIES : Offerers(tool) # {}}
        /\ \A tool \in DOMAIN prefs :
              \E i \in Offerers(tool) :
                  prefs[tool] = <<conda_in[i].pref, OfferedVersion(i, tool)>>
        /\ DOMAIN envs = {conda_in[i].name : i \in {j \in NamedEnvs : RequiredListed(j) # {}}}
        /\ \A i \in NamedEnvs :
              conda_in[i].name \in DOMAIN envs =>
                  {envs[conda_in[i].name][k] : k \in 1..Len(envs[conda_in[i].name])}
                      = RequiredListed(i)
        /\ "" \notin DOMAIN envs
        /\ "*" \notin DOMAIN envs
        /\ \A i \in 1..Len(conda_in) :
              conda_in[i].name = "" =>
                  \A tool \in DOMAIN prefs : prefs[tool][1] # conda_in[i].pref

\* C11 witness: the environment without a name lists medaka 1.10.0 and
\* flye, one named environment lists only python and another python and
\* medaka 1.9.0, that one being the active environment: prefs holds medaka
\* 1.9.0 alone and envs the last environment alone.
C11_Witness ==
    /\ conda_pc = "done"
    /\ \E a, b, c \in 1..Len(conda_in) :
          /\ conda_in[a].name = "" /\ Offers(a, "flye") /\ Offers(a, "medaka")
          /\ conda_in[b].name # "" /\ conda_in[b].pkgs # <<>> /\ RequiredListed(b) = {}
          /\ conda_in[c].name # "" /\ Offers(c, "python") /\ Offers(c, "medaka")
          /\ conda_in[c].active
          /\ DOMAIN prefs = {"medaka"}
          /\ prefs["medaka"] = <<conda_in[c].pref, "1.9.0">>
          /\ DOMAIN envs = {conda_in[c].name}
          /\ envs[conda_in[c].name] = <<"medaka">>

(***************************************************************************)
(* Properties of _setup_pipeline.                                           *)
(***************************************************************************)
\* _setup_pipeline has returned its list
PipelineBuilt ==
    \/ pc \in {"iter", "run", "done"}
    \/ pc = "raised" /\ Len(runs) >= 1

\* the positions in steps of the steps of a class
PosOf(kind) == {k \in 1..Len(steps) : steps[k].kind = kind}

\* the positions in steps of the steps of a class made for an assembler
PosFor(kind, assembler) ==
    {k \in PosOf(kind) : steps[k].assembler = assembler}

Selected == {a \in {"Flye", "Raven", "Miniasm"} : dpg["use_" \o a]}

CleanupKinds == {"CleanDuplexStep", "CleanAssemblyStep", "CleanFilterStep", "FinalCleanStep"}

\* every position of S is less than every position of T
Before(S, T) == \A i \in S, j \in T : i < j

\* C4: in the list _setup_pipeline returns the DuplexStep comes first, the
\* FilterStep second and before every AssemblyStep; every selected
\* assembler has one AssemblyStep, before its RaconPolishingStep (the one
\* of Flye, if present), before its one MedakaPolishingStep, before its
\* CleanAssemblyStep (if present); the AssemblySteps are those of the
\* selected assemblers in the order Flye, Raven, Miniasm.
C4_StepOrder ==
    PipelineBuilt =>
        /\ PosOf("DuplexStep") = {1}
        /\ PosOf("FilterStep") = {2}
        /\ Before(PosOf("FilterStep"), PosOf("AssemblyStep"))
        /\ \A a \in Selected :
              /\ Cardinality(PosFor("AssemblyStep", a)) = 1
              /\ Cardinality(PosFor("MedakaPolishingStep", a)) = 1
              /\ Before(PosFor("AssemblyStep", a), PosFor("MedakaPolishingStep", a))
              /\ Before(PosFor("MedakaPolishingStep", a), PosFor("CleanAssemblyStep", a))
              /\ Cardinality(PosFor("CleanAssemblyStep", a)) <= 1
        /\ Before(PosFor("AssemblyStep", "Flye"), PosOf("RaconPolishingStep"))
        /\ Before(PosOf("RaconPolishingStep"), PosFor("MedakaPolishingStep", "Flye"))
        /\ \A k \in PosOf("AssemblyStep") : steps[k].assembler \in Selected
        /\ Before(PosFor("AssemblyStep", "Flye"), PosFor("AssemblyStep", "Raven"))
        /\ Before(PosFor("AssemblyStep", "Flye"), PosFor("AssemblyStep", "Miniasm"))
        /\ Before(PosFor("AssemblyStep", "Raven"), PosFor("AssemblyStep", "Miniasm"))

\* C4 witness: all three assemblers with racon polishing and cleanup, the
\* racon step between Flye's assembly and medaka steps.
C4_Witness ==
    /\ PipelineBuilt
    /\ Selected = {"Flye", "Raven", "Miniasm"}
    /\ ~ dpg.keep_intermediate
    /\ Len(steps) = 15
    /\ steps[4].kind = "AssemblyStep" /\ steps[4].assembler = "Flye"
    /\ steps[5].kind = "RaconPolishingStep"
    /\ steps[6].kind = "MedakaPolishingStep" /\ steps[6].assembler = "Flye"
    /\ steps[7].kind = "CleanAssemblyStep" /\ steps[7].assembler = "Flye"
    /\ steps[8].kind = "AssemblyStep" /\ steps[8].assembler = "Raven"

\* C5: the list contains a RaconPolishingStep iff Flye is selected and
\* racon_skip is false, and then exactly one.
C5_RaconIffFlye ==
    PipelineBuilt =>
        Cardinality(PosOf("RaconPolishingStep")) =
            IF dpg.use_Flye /\ ~ dpg.racon_skip THEN 1 ELSE 0

\* C5 witness: Flye and Raven selected, racon not skipped, one racon step.
C5_Witness ==
    /\ PipelineBuilt
    /\ dpg.use_Flye /\ dpg.use_Raven /\ ~ dpg.racon_skip
    /\ Cardinality(PosOf("RaconPolishingStep")) = 1

\* C6: the list contains a cleanup step iff keep_intermediate is false,
\* and then its last two steps are CleanFilterStep and FinalCleanStep.
C6_CleanupIffNotKeep ==
    PipelineBuilt =>
        /\ (\E k \in 1..Len(steps) : steps[k].kind \in CleanupKinds)
               <=> ~ dpg.keep_intermediate
        /\ ~ dpg.keep_intermediate =>
               /\ Len(steps) >= 2
               /\ steps[Len(steps) - 1].kind = "CleanFilterStep"
               /\ steps[Len(steps)].kind = "FinalCleanStep"

\* C6 witness: no assembler selected and keep_intermediate false: the five
\* steps end with the two global cleanup steps.
C6_Witness ==
    /\ PipelineBuilt
    /\ Selected = {}
    /\ ~ dpg.keep_intermediate
    /\ Len(steps) = 5
    /\ steps[4].kind = "CleanFilterStep"
    /\ steps[5].kind = "FinalCleanStep"

(***************************************************************************)
(* Properties of _fastq_folder_iter.                                        *)
(***************************************************************************)
\* the generator is exhausted
Exhausted == pc = "done"

\* the root directly contains a file with ".fastq" among its suffixes
RootHasReadFile ==
    \E k \in 1..Len(fs.entries) :
        ~ fs.entries[k].is_dir /\ ".fastq" \in Suffixes(fs.entries[k].name)

\* position k of the root holds a directory that holds a read file
EntryHasReadFile(k) ==
    /\ fs.entries[k].is_dir
    /\ \E f \in 1..Len(fs.entries[k].entries) :
          /\ ~ fs.entries[k].entries[f].is_dir
          /\ ".fastq" \in Suffixes(fs.entries[k].entries[f].name)

\* C7 as stated: no folder the generator yields is named original_backup,
\* whatever the root.
C7_NeverOriginalBackup ==
    \A k \in 1..Len(yielded) : PathName(yielded[k]) # "original_backup"

\* C7 amended: no entry of the root that the generator yields is named
\* original_backup; only the root itself can be yielded under that name.
C7_NoChildOriginalBackup ==
    \A k \in 1..Len(yielded) :
        PathName(yielded[k]) = "original_backup" => yielded[k] = dir

\* C7 witness: the root holds a directory original_backup with a read file,
\* the generator is exhausted and has yielded another folder, not that one.
C7_Witness ==
    /\ Exhausted
    /\ \E k \in 1..Len(fs.entries) :
          fs.entries[k].name = "original_backup" /\ EntryHasReadFile(k)
    /\ Len(yielded) >= 1
    /\ \A k \in 1..Len(yielded) : yielded[k] # dir \o "/original_backup"

\* C8: the root is yielded only if it directly contains a read file, only
\* once and after every other folder; when the generator is exhausted the
\* root has been yielded iff it directly contains a read file, whatever its
\* name and skip_unclassified.
C8_RootIffReadFile ==
    /\ \A k \in 1..Len(yielded) :
          yielded[k] = dir => (RootHasReadFile /\ k = Len(yielded))
    /\ Exhausted =>
          ((\E k \in 1..Len(yielded) : yielded[k] = dir) <=> RootHasReadFile)

\* C8 witness: a root named unclassified or original_backup, with
\* skip_unclassified set, is yielded last after one of its entries.
C8_Witness ==
    /\ Exhausted
    /\ dpg.skip_unclassified
    /\ fs.name \in {"unclassified", "original_backup"}
    /\ Len(yielded) = 2
    /\ yielded[1] # dir
    /\ yielded[2] = dir

(***************************************************************************)
(* Properties of execute_pipeline.                                          *)
(***************************************************************************)
\* the entries of the root the scan listed that pass the four rules of the
\* Folder Source, in scan order, and then the root if it holds a read file
\* (what a step creates in the root comes after the listed entries)
RECURSIVE ExpectedChildren(_)
ExpectedChildren(k) ==
    IF k > Len(listing) THEN <<>>
    ELSE (IF /\ EntryHasReadFile(k)
             /\ ~ StartsWith(Stem(fs.entries[k].name), "original")
             /\ ~ StartsWith(Stem(fs.entries[k].name), "assemblies")
             /\ ~ (dpg.skip_unclassified
                   /\ StartsWith(Stem(fs.entries[k].name), "unclassified"))
          THEN <<dir \o "/" \o fs.entries[k].name>> ELSE <<>>)
         \o ExpectedChildren(k + 1)

ExpectedFolders ==
    ExpectedChildren(1) \o (IF RootHasReadFile THEN <<dir>> ELSE <<>>)

\* C10: the invocations step.run(folder) made so far are the first ones of
\* the folder-major sequence (every folder of the Folder Source in order,
\* with every step of the list in order); an invocation that raised is the
\* last one made; when execute_pipeline ends normally the sequence is
\* complete.
C10_FolderMajorPrefix ==
    LET n == Len(steps)
        F == ExpectedFolders
    IN  /\ Len(runs) <= Len(F) * n
        /\ \A k \in 1..Len(runs) :
              /\ runs[k].folder = F[((k - 1) \div n) + 1]
              /\ runs[k].step = steps[((k - 1) % n) + 1]
              /\ runs[k].raised => k = Len(runs)
        /\ (pc = "raised" /\ Len(runs) >= 1) => runs[Len(runs)].raised
        /\ pc = "done" => Len(runs) = Len(F) * n

\* C10 witness: the whole list ran on the first folder, then a step raised
\* in the middle of the list on the second (the root), whose remaining
\* steps were never invoked.
C10_Witness ==
    /\ pc = "raised"
    /\ Len(ExpectedFolders) = 2
    /\ ExpectedFolders[2] = dir
    /\ Len(runs) > Len(steps)
    /\ Len(runs) < 2 * Len(steps)
    /\ runs[Len(runs)].folder = dir
    /\ runs[Len(runs)].raised
    /\ ~ runs[Len(steps)].raised

====
